---- MODULE Spec2Model ----
(***************************************************************************)
(* State-machine model of OTClient, the collaboration client of            *)
(* examples/react/components/editor/ot/client.ts.                          *)
(*                                                                         *)
(* The client's fields are the variables.  Every public method that is     *)
(* called from outside and every callback the client registers (transport  *)
(* open / message / close / error listeners, the heartbeat timer, the      *)
(* addMembers debounce timer, the subscribe callback) is one action; each  *)
(* runs to completion (single-threaded event loop).  The transport         *)
(* (ReconnectingWebSocket), the sharedb document and the editor engine are *)
(* the environment: they decide when a callback runs and with what input.  *)
(*                                                                         *)
(* Spec is the client in its whole environment.  SpecRoster, SpecRelay,   *)
(* SpecSession and SpecHeartbeat run the same actions in a part of that    *)
(* environment (the envelopes and events one component reacts to), which   *)
(* keeps each state space small enough to explore exhaustively.            *)
(***************************************************************************)
EXTENDS Integers, Sequences, FiniteSets, TLC

(* ---------------------------- bounds ----------------------------------- *)
\* number of connect() calls, i.e. of transports ever created, where the
\* specification lets connect() be called again
MaxConnects == 2
\* number of open events (initial opens + reconnections) of all transports
MaxOpens == 2
\* number of subscribe callbacks / debounce timers outstanding at a time
MaxPending == 2
\* length of the participant list of a members message
MaxList == 2
\* number of heartbeat timers pending when checkHeartbeat() is called directly
MaxTimers == 2

(* ------------------------ program constants ---------------------------- *)
\* default of checkHeartbeat's millisecond parameter
DefaultMillisecond == 30000
\* ERROR_CODE.STATUS_CODE.FORCE_DISCONNECTED
FORCE_DISCONNECTED == 4002

\* STATUS; "undefined" is the value of the status field before any transmit
STATUS == {"init", "loaded", "active", "exit", "error"}
Undefined == "undefined"

(* ------------------------------ inputs --------------------------------- *)
Ids == {1, 2}
Uuids == {"u1", "u2"}
\* a participant as the server announces it (avatar, name, iid carry no logic)
Member == [id : Ids, uuid : Uuids]
\* the value of this.current before any ready message
NoMember == [id |-> 0, uuid |-> Undefined]
\* readings of new Date().getTime() at a heartbeat tick
TimePoints == {1000, 30000, 31000, 61000}
Bodies == {"b1", "b2"}
Types == {"t1"}

RECURSIVE ListsUpTo(_)
ListsUpTo(n) ==
    IF n = 0 THEN {<<>>}
    ELSE LET shorter == ListsUpTo(n - 1)
         IN  shorter \cup {Append(l, m) : l \in {x \in shorter : Len(x) = n - 1}, m \in Member}

\* the control envelopes {action, data} the server sends
Messages ==
    {[action |-> "members", data |-> l] : l \in ListsUpTo(MaxList)}
    \cup {[action |-> a, data |-> m] : a \in {"join", "leave", "ready"}, m \in Member}
    \cup {[action |-> "broadcast", data |-> [uuid |-> u, type |-> t, body |-> b]] :
             u \in Uuids \cup {Undefined}, t \in Types, b \in Bodies}
    \cup {[action |-> "heartbeat", data |-> NoMember]}

VARIABLES
    socks,        \* the transports created by connect(), in creation order
    socket,       \* this.socket: index into socks, 0 = undefined
    isClosed,     \* this.isClosed
    members,      \* this.members
    current,      \* this.current
    doc,          \* this.doc: the document id, or Undefined before load()
    status,       \* this.status
    heartbeat,    \* this.heartbeat
    timers,       \* heartbeat timers set by setTimeout and not yet fired or cleared
    pendingSubs,  \* doc.subscribe calls whose callback has not run yet
    pendingEmits, \* addMembers debounce timers that have not fired yet
    last,         \* the operation or callback that ran last, and what it saw
    effects,      \* what it did: events emitted, close / clearTimeout / send calls
    announced     \* the participants the server announced and has not said left

vars == <<socks, socket, isClosed, members, current, doc, status, heartbeat, timers,
          pendingSubs, pendingEmits, last, effects, announced>>

(* ------------------------- recorded effects ---------------------------- *)
Effect(kind, name, payload) == [kind |-> kind, name |-> name, payload |-> payload]
\* this.emit(name, payload)
Emit(name, payload) == Effect("emit", name, payload)
\* socket.close(code, reason) on transport s; code 0 = called without arguments
CloseCall(s, code) == Effect("close", "close", [sock |-> s, code |-> code])
\* clearTimeout(t) with the timers tm pending: the payload tells whether the
\* call cancelled a pending timer
ClearCall(t, tm) == Effect("clearTimeout", "clearTimeout", t \in tm)

RECURSIVE CountOf(_, _, _)
\* number of effects of the given kind and name in a sequence of effects
CountOf(eff, kind, name) ==
    IF eff = <<>> THEN 0
    ELSE (IF Head(eff).kind = kind /\ Head(eff).name = name THEN 1 ELSE 0)
         + CountOf(Tail(eff), kind, name)

\* the effects of the given kind and name, in order
Select(eff, kind, name) == SelectSeq(eff, LAMBDA e : e.kind = kind /\ e.name = name)

\* sendMessage(action, data): this.socket?.send of the envelope, stamped with
\* doc_id and uuid; nothing is sent while this.socket is undefined
sendMessage(sk, action, data, d, cur) ==
    IF sk # 0
    THEN <<Effect("send", action,
              [sock |-> sk, data |-> data, doc_id |-> d, uuid |-> cur.uuid])>>
    ELSE <<>>

(* --------------------------- Presence Tracker -------------------------- *)
HasId(ms, id) == \E i \in 1..Len(ms) : ms[i].id = id

RECURSIVE addMembersNoFind(_, _)
\* addMembers without the find() test: every incoming member is pushed
addMembersNoFind(ms, memberList) ==
    IF memberList = <<>> THEN ms
    ELSE addMembersNoFind(Append(ms, Head(memberList)), Tail(memberList))

RECURSIVE addMembers(_, _)
\* memberList.forEach: push a member unless an entry with its id exists
addMembers(ms, memberList) ==
    IF memberList = <<>> THEN ms
    ELSE addMembers(IF ~HasId(ms, Head(memberList).id)
                    THEN Append(ms, Head(memberList))
                    ELSE ms,
                    Tail(memberList))

\* a filter that compares ids instead of uuids
removeMemberById(ms, member) == SelectSeq(ms, LAMBDA user : user.id # member.id)

\* this.members.filter(user => user.uuid !== member.uuid)
removeMember(ms, member) == SelectSeq(ms, LAMBDA user : user.uuid # member.uuid)

\* colorMap[uuid] as built from engine.ot.getMembers(): the engine's colour of
\* a participant, one colour per uuid.  (The engine is outside the client; the
\* calls that mirror the roster to it change no field of the client.)
colorMap(uuid) == IF uuid = "u1" THEN "c1" ELSE "c2"

RECURSIVE normalizeScan(_, _, _, _)
\* the loop of normalizeMembers: i runs from ms.length down to 1
normalizeScan(ms, i, memberMap, out) ==
    IF i = 0 THEN out
    ELSE LET member == ms[i]
         IN  IF member.id \notin memberMap
             THEN normalizeScan(ms, i - 1, memberMap \cup {member.id},
                      Append(out, [id |-> member.id, uuid |-> member.uuid,
                                   color |-> colorMap(member.uuid)]))
             ELSE normalizeScan(ms, i - 1, memberMap, out)

normalizeMembers(ms) == normalizeScan(ms, Len(ms), {}, <<>>)

(* ------------------------- Session State Machine ----------------------- *)
\* transmit that stays silent when the status does not change
transmitIfChanged(prevStatus, s) ==
    IF prevStatus = s THEN <<>>
    ELSE <<Emit("statusChange", [form |-> prevStatus, to |-> s])>>

\* transmit(status): the event it emits; the caller assigns this.status
transmit(prevStatus, s) ==
    <<Emit("statusChange", [form |-> prevStatus, to |-> s])>>

\* onError without its emit
onErrorNoEmit(code) == <<>>

\* onError(error): the event it emits; the caller assigns STATUS.error
onError(code) ==
    <<Emit("error", [code |-> code, level |-> "FATAL"])>>

isActive == status = "active"

\* exit() without its guard
exitGuardMissing(st) == TRUE

\* the guard of exit()
exitGuard(st) == st # "exit"

\* socket.close() as the transport performs it: a transport that is connecting
\* or open starts closing and remembers the code; otherwise nothing changes
closeSocket(ss, s, code) ==
    IF ss[s].state \in {"connecting", "open"}
    THEN [ss EXCEPT ![s].state = "closing", ![s].code = code]
    ELSE ss

\* disconnect(): the calls it makes
disconnect(sk, hb, tm) ==
    IF sk # 0
    THEN [timers |-> IF hb.set THEN tm \ {hb.timeout} ELSE tm,
          eff |-> <<CloseCall(sk, FORCE_DISCONNECTED)>>
                  \o (IF hb.set THEN <<ClearCall(hb.timeout, tm)>> ELSE <<>>)]
    ELSE [timers |-> tm, eff |-> <<>>]

(* --------------------------- Heartbeat Monitor ------------------------- *)
NoHeartbeat == [set |-> FALSE, timeout |-> 0, datetime |-> 0]

\* the handle setTimeout returns: one that no pending timer has and that the
\* client holds nowhere (a handle nobody holds any more is as good as new)
setTimeout(held) == CHOOSE t \in 1..(Cardinality(held) + 1) : t \notin held

\* checkHeartbeat(): clears heartbeat.timeout and sets a new timer
checkHeartbeat(sk, hb, tm) ==
    IF sk = 0
    THEN [timers |-> tm, eff |-> <<>>]
    ELSE LET kept == IF hb.set THEN tm \ {hb.timeout} ELSE tm
             held == IF hb.set THEN tm \cup {hb.timeout} ELSE tm
         IN  [timers |-> kept \cup {setTimeout(held)},
              eff |-> IF hb.set THEN <<ClearCall(hb.timeout, tm)>> ELSE <<>>]

\* Timer handles are opaque: the client stores one in heartbeat.timeout and
\* passes it to clearTimeout, nothing else.  After every step the handles are
\* renamed: the one in heartbeat.timeout becomes 1, the other pending timers
\* 2, 3, ...
renameTimers(hb, tm) ==
    LET others == IF hb.set THEN tm \ {hb.timeout} ELSE tm
    IN  [heartbeat |-> IF hb.set THEN [hb EXCEPT !.timeout = 1] ELSE hb,
         timers |-> (IF hb.set /\ hb.timeout \in tm THEN {1} ELSE {})
                    \cup 2..(Cardinality(others) + 1)]

\* the condition under which a tick sends a heartbeat
tickSends(closed, hb, now, millisecond) ==
    ~closed /\ (~hb.set \/ now - hb.datetime >= millisecond)

(* ------------------------- Control-Message Router ---------------------- *)
\* the broadcast branch without its test
isForeignMissing(uuid, cur) == TRUE

\* the test of the broadcast branch
isForeign(uuid, cur) == uuid # cur.uuid

\* one run of the message listener on the envelope msg
handleMessage(msg, st) ==
    CASE msg.action = "members" ->
            [st EXCEPT !.members = addMembers(st.members, msg.data),
                       !.emits = st.emits + 1]
      [] msg.action = "join" ->
            [st EXCEPT !.members = addMembers(st.members, <<msg.data>>),
                       !.emits = st.emits + 1]
      [] msg.action = "leave" ->
            LET ms == removeMember(st.members, msg.data)
            IN  [st EXCEPT !.members = ms,
                           !.eff = Append(st.eff, Emit("membersChange", normalizeMembers(ms)))]
      [] msg.action = "ready" ->
            [st EXCEPT !.current = msg.data,
                       !.doc = "docID",
                       !.subs = st.subs + 1]
      [] msg.action = "broadcast" ->
            IF isForeign(msg.data.uuid, st.current)
            THEN [st EXCEPT !.eff = Append(st.eff,
                     Emit("message", [type |-> msg.data.type, body |-> msg.data.body]))]
            ELSE st
      [] OTHER -> st

RECURSIVE dispatch(_, _, _)
\* a message event runs every message listener registered on the transport
dispatch(n, msg, st) ==
    IF n = 0 THEN st ELSE dispatch(n - 1, msg, handleMessage(msg, st))

(* -------------------------------- state -------------------------------- *)
\* what the server has told so far: a members or join envelope announces
\* participants, a leave envelope says that the connection uuid has left
announce(an, msg) ==
    CASE msg.action = "members" -> an \cup {msg.data[i] : i \in 1..Len(msg.data)}
      [] msg.action = "join" -> an \cup {msg.data}
      [] msg.action = "leave" -> {p \in an : p.uuid # msg.data.uuid}
      [] OTHER -> an

NoMsg == [action |-> "none", data |-> NoMember]

\* the record kept in last: the operation, the envelope it was given, its
\* argument, the status it found (kept by the operations that may call
\* transmit) and, for a close event, the code the transport was closed with,
\* for a heartbeat tick the time new Date() read
Op(name, msg, arg, prevStatus, code) ==
    [op |-> name, msg |-> msg, arg |-> arg, prevStatus |-> prevStatus, code |-> code]

RECURSIVE SumListeners(_, _)
\* the number of open events handled so far: each added one message listener
SumListeners(ss, i) == IF i = 0 THEN 0 ELSE ss[i].listeners + SumListeners(ss, i - 1)

Init ==
    /\ socks = <<>>
    /\ socket = 0
    /\ isClosed = TRUE
    /\ members = <<>>
    /\ current = NoMember
    /\ doc = Undefined
    /\ status = Undefined
    /\ heartbeat = NoHeartbeat
    /\ timers = {}
    /\ pendingSubs = 0
    /\ pendingEmits = 0
    /\ last = Op("new", NoMsg, "", "", 0)
    /\ effects = <<>>
    /\ announced = {}

(* ------------------------------- actions ------------------------------- *)
\* connect(url, docID): closes this.socket if set, creates a new transport
Connect ==
    /\ socks' = Append(IF socket # 0 THEN closeSocket(socks, socket, 0) ELSE socks,
                       [state |-> "connecting", listeners |-> 0, code |-> 0])
    /\ effects' = IF socket # 0 THEN <<CloseCall(socket, 0)>> ELSE <<>>
    /\ last' = Op("connect", NoMsg, "", "", 0)
    /\ UNCHANGED <<socket, isClosed, members, current, doc, status, heartbeat,
                   timers, pendingSubs, pendingEmits, announced>>

\* the open listener of transport s
SocketOpen(s) ==
    /\ socks[s].state = "connecting"
    /\ SumListeners(socks, Len(socks)) < MaxOpens
    /\ LET hb == checkHeartbeat(s, heartbeat, timers)
           rn == renameTimers(heartbeat, hb.timers)
       IN  /\ timers' = rn.timers
           /\ heartbeat' = rn.heartbeat
           /\ effects' = hb.eff
    /\ socket' = s
    /\ isClosed' = FALSE
    /\ socks' = [socks EXCEPT ![s].state = "open", ![s].listeners = @ + 1]
    /\ last' = Op("open", NoMsg, "", "", 0)
    /\ UNCHANGED <<members, current, doc, status, pendingSubs, pendingEmits, announced>>

\* a message event of transport s: every registered message listener runs
SocketMessage(s, msg) ==
    /\ socks[s].state = "open"
    /\ \E st \in {dispatch(socks[s].listeners, msg,
                     [members |-> members, current |-> current, doc |-> doc,
                      subs |-> pendingSubs, emits |-> pendingEmits, eff |-> <<>>])} :
           /\ st.subs <= MaxPending
           /\ st.emits <= MaxPending
           /\ members' = st.members
           /\ current' = st.current
           /\ doc' = st.doc
           /\ pendingSubs' = st.subs
           /\ pendingEmits' = st.emits
           /\ effects' = st.eff
    /\ announced' = announce(announced, msg)
    /\ last' = Op("message", msg, "", "", 0)
    /\ UNCHANGED <<socks, socket, isClosed, status, heartbeat, timers>>

\* the close listener of transport s.  A transport whose close() was called
\* ends closed; one that lost its connection goes back to connecting.
SocketClose(s) ==
    /\ socks[s].state \in {"connecting", "open", "closing"}
    /\ socks' = [socks EXCEPT ![s] =
                    IF socks[s].state = "closing"
                    THEN [@ EXCEPT !.state = "closed", !.code = 0]
                    ELSE [@ EXCEPT !.state = "connecting"]]
    /\ IF status # "exit"
       THEN /\ effects' = onError("DISCONNECTED")
            /\ status' = "error"
       ELSE /\ effects' = <<>>
            /\ status' = status
    /\ last' = Op("close", NoMsg, "", "", socks[s].code)
    /\ UNCHANGED <<socket, isClosed, members, current, doc, heartbeat, timers,
                   pendingSubs, pendingEmits, announced>>

\* the error listener of transport s
SocketError(s) ==
    /\ socks[s].state \in {"connecting", "open", "closing"}
    /\ effects' = onError("CONNECTION_ERROR")
    /\ status' = "error"
    /\ last' = Op("error", NoMsg, "", "", 0)
    /\ UNCHANGED <<socks, socket, isClosed, members, current, doc, heartbeat,
                   timers, pendingSubs, pendingEmits, announced>>

\* the timer callback of checkHeartbeat: timer t fires, new Date() reads now
HeartbeatTick(t, now) ==
    /\ t \in timers
    /\ heartbeat.set => now >= heartbeat.datetime
    /\ LET sends == tickSends(isClosed, heartbeat, now, DefaultMillisecond)
           hb1 == IF sends THEN [set |-> TRUE, timeout |-> t, datetime |-> now]
                  ELSE IF heartbeat.set THEN [heartbeat EXCEPT !.timeout = t]
                  ELSE heartbeat
           hb == checkHeartbeat(socket, hb1, timers \ {t})
           rn == renameTimers(hb1, hb.timers)
       IN  /\ heartbeat' = rn.heartbeat
           /\ timers' = rn.timers
           /\ effects' = (IF sends
                          THEN sendMessage(socket, "heartbeat", now, doc, current)
                          ELSE <<>>) \o hb.eff
    /\ last' = Op("tick", NoMsg, "", "", now)
    /\ UNCHANGED <<socks, socket, isClosed, members, current, doc, status,
                   pendingSubs, pendingEmits, announced>>

\* checkHeartbeat() called directly
CheckHeartbeat ==
    /\ LET hb == checkHeartbeat(socket, heartbeat, timers)
           rn == renameTimers(heartbeat, hb.timers)
       IN  /\ timers' = rn.timers
           /\ heartbeat' = rn.heartbeat
           /\ effects' = hb.eff
    /\ last' = Op("checkHeartbeat", NoMsg, "", "", 0)
    /\ UNCHANGED <<socks, socket, isClosed, members, current, doc, status,
                   pendingSubs, pendingEmits, announced>>

\* the timer callback of addMembers
MembersChangeTimer ==
    /\ pendingEmits > 0
    /\ pendingEmits' = pendingEmits - 1
    /\ effects' = <<Emit("membersChange", normalizeMembers(members))>>
    /\ last' = Op("membersTimer", NoMsg, "", "", 0)
    /\ UNCHANGED <<socks, socket, isClosed, members, current, doc, status,
                   heartbeat, timers, pendingSubs, announced>>

\* a subscribe callback that raises a client error when it fails
subscribeCallbackRaises(outcome, st, ms, cur) ==
    IF outcome = "ok"
    THEN [status |-> "active",
          eff |-> <<Emit("ready", cur), Emit("membersChange", normalizeMembers(ms))>>
                  \o transmit(st, "active")]
    ELSE [status |-> "error", eff |-> onError("INIT_ERROR")]

\* the subscribe callback without the test of its error argument
subscribeCallbackNoTest(outcome, st, ms, cur) ==
    IF outcome # "throws"
    THEN [status |-> "active",
          eff |-> <<Emit("ready", cur), Emit("membersChange", normalizeMembers(ms))>>
                  \o transmit(st, "active")]
    ELSE [status |-> st, eff |-> <<>>]

\* what the subscribe callback does for each outcome: "error" = subscribe
\* reported an error, "throws" = engine.ot.init threw, "ok" = success
subscribeCallback(outcome, st, ms, cur) ==
    IF outcome = "ok"
    THEN [status |-> "active",
          eff |-> <<Emit("ready", cur), Emit("membersChange", normalizeMembers(ms))>>
                  \o transmit(st, "active")]
    ELSE [status |-> st, eff |-> <<>>]

\* the callback of doc.subscribe
SubscribeCallback(outcome) ==
    /\ pendingSubs > 0
    /\ pendingSubs' = pendingSubs - 1
    /\ LET cb == subscribeCallback(outcome, status, members, current)
       IN  /\ status' = cb.status
           /\ effects' = cb.eff
    /\ last' = Op("subscribe", NoMsg, outcome, status, 0)
    /\ UNCHANGED <<socks, socket, isClosed, members, current, doc, heartbeat,
                   timers, pendingEmits, announced>>

\* exit()
Exit ==
    /\ IF exitGuard(status)
       THEN LET dc == disconnect(socket, heartbeat, timers)
                 rn == renameTimers(heartbeat, dc.timers)
            IN  /\ status' = "exit"
                /\ effects' = transmit(status, "exit") \o dc.eff
                /\ socks' = IF socket # 0
                            THEN closeSocket(socks, socket, FORCE_DISCONNECTED)
                            ELSE socks
                /\ timers' = rn.timers
                /\ heartbeat' = rn.heartbeat
       ELSE /\ effects' = <<>>
            /\ UNCHANGED <<status, socks, timers, heartbeat>>
    /\ last' = Op("exit", NoMsg, "", status, 0)
    /\ UNCHANGED <<socket, isClosed, members, current, doc, pendingSubs, pendingEmits, announced>>

\* transmit(s) called directly
Transmit(s) ==
    /\ status' = s
    /\ effects' = transmit(status, s)
    /\ last' = Op("transmit", NoMsg, s, status, 0)
    /\ UNCHANGED <<socks, socket, isClosed, members, current, doc, heartbeat,
                   timers, pendingSubs, pendingEmits, announced>>

(* ---------------------------- specifications -------------------------- *)
RosterMessages == {m \in Messages : m.action \in {"members", "join", "leave"}}
RelayMessages ==
    {m \in Messages : m.action \in {"ready", "broadcast", "heartbeat"}}
SessionMessages ==
    {m \in Messages : m.action = "ready" /\ m.data = [id |-> 1, uuid |-> "u1"]}
Outcomes == {"ok", "error", "throws"}
\* the session's operations never read the heartbeat's time: one reading
SessionTimes == {t \in TimePoints : \A u \in TimePoints : t <= u}

\* the client with everything its environment can do
Next ==
    \/ Len(socks) < MaxConnects /\ Connect
    \/ \E s \in 1..Len(socks) : SocketOpen(s)
    \/ \E s \in 1..Len(socks), msg \in Messages : SocketMessage(s, msg)
    \/ \E s \in 1..Len(socks) : SocketClose(s)
    \/ \E s \in 1..Len(socks) : SocketError(s)
    \/ Cardinality(timers) < MaxTimers /\ CheckHeartbeat
    \/ \E t \in timers, now \in TimePoints : HeartbeatTick(t, now)
    \/ MembersChangeTimer
    \/ \E outcome \in Outcomes : SubscribeCallback(outcome)
    \/ Exit
    \/ \E s \in STATUS : Transmit(s)

Spec == Init /\ [][Next]_vars

\* Presence Tracker: after one connect() the transport opens, drops and
\* reconnects; the server sends members, join and leave envelopes; the
\* debounce timers fire
NextRoster ==
    \/ socks = <<>> /\ Connect
    \/ \E s \in 1..Len(socks) : SocketOpen(s)
    \/ \E s \in 1..Len(socks), msg \in RosterMessages : SocketMessage(s, msg)
    \/ \E s \in 1..Len(socks) : SocketClose(s)
    \/ MembersChangeTimer

SpecRoster == Init /\ [][NextRoster]_vars

\* Broadcast Relay: after one connect() the transport opens, drops and
\* reconnects; the server sends ready, broadcast and heartbeat envelopes;
\* subscriptions complete
NextRelay ==
    \/ socks = <<>> /\ Connect
    \/ \E s \in 1..Len(socks) : SocketOpen(s)
    \/ \E s \in 1..Len(socks), msg \in RelayMessages : SocketMessage(s, msg)
    \/ \E s \in 1..Len(socks) : SocketClose(s)
    \/ \E outcome \in Outcomes : SubscribeCallback(outcome)

SpecRelay == Init /\ [][NextRelay]_vars

\* Session State Machine: every call and callback that reads or writes the
\* status, the transport or the heartbeat timer; the server sends ready
NextSession ==
    \/ Len(socks) < MaxConnects /\ Connect
    \/ \E s \in 1..Len(socks) : SocketOpen(s)
    \/ \E s \in 1..Len(socks), msg \in SessionMessages : SocketMessage(s, msg)
    \/ \E s \in 1..Len(socks) : SocketClose(s)
    \/ \E s \in 1..Len(socks) : SocketError(s)
    \/ \E t \in timers, now \in SessionTimes : HeartbeatTick(t, now)
    \/ \E outcome \in Outcomes : SubscribeCallback(outcome)
    \/ Exit
    \/ \E s \in STATUS : Transmit(s)

SpecSession == Init /\ [][NextSession]_vars

\* Heartbeat Monitor: after one connect() the transport opens, drops and
\* reconnects; checkHeartbeat() and exit() are called; the timers fire at
\* every time of TimePoints
NextHeartbeat ==
    \/ socks = <<>> /\ Connect
    \/ \E s \in 1..Len(socks) : SocketOpen(s)
    \/ \E s \in 1..Len(socks) : SocketClose(s)
    \/ Cardinality(timers) < MaxTimers /\ CheckHeartbeat
    \/ \E t \in timers, now \in TimePoints : HeartbeatTick(t, now)
    \/ Exit

SpecHeartbeat == Init /\ [][NextHeartbeat]_vars

(* ------------------------------- claims -------------------------------- *)
IsBroadcast == last.op = "message" /\ last.msg.action = "broadcast"
StatusChanges == Select(effects, "emit", "statusChange")
MessageEvents == Select(effects, "emit", "message")
ErrorEvents == Select(effects, "emit", "error")
CloseCalls == CountOf(effects, "close", "close")
ClearCalls == CountOf(effects, "clearTimeout", "clearTimeout")

\* C1: roster uniqueness -- in every state reached by members, join and leave
\* messages (handled by one or several listeners), no two entries of the
\* roster have the same id
C1_RosterUnique ==
    \A i, j \in 1..Len(members) : members[i].id = members[j].id => i = j

\* a members message whose list repeats an id was handled by two listeners and
\* the roster holds two entries
C1_Witness ==
    /\ last.op = "message" /\ last.msg.action = "members"
    /\ Len(last.msg.data) = 2
    /\ last.msg.data[1].id = last.msg.data[2].id
    /\ last.msg.data[1].uuid # last.msg.data[2].uuid
    /\ \A s \in 1..Len(socks) : socks[s].state = "open" => socks[s].listeners = 2
    /\ Len(members) = 2

\* C2: exit() is idempotent -- of two exit() calls in succession the second
\* makes no close or clearTimeout call, so the pair makes each at most once,
\* and the second changes no status and emits no statusChange
C2_ExitIdempotent ==
    [][(last.op = "exit" /\ last'.op = "exit") =>
          /\ CloseCalls + CloseCalls' <= 1
          /\ ClearCalls + ClearCalls' <= 1
          /\ status' = status
          /\ StatusChanges' = <<>>
          /\ socks' = socks /\ timers' = timers]_vars

\* exit() ran with the status already exit while a transport and a heartbeat
\* record exist, and did nothing
C2_Witness ==
    /\ last.op = "exit" /\ last.prevStatus = "exit"
    /\ socket # 0 /\ heartbeat.set
    /\ effects = <<>>

EventOps == {"open", "close", "error", "message", "subscribe", "tick"}

\* C3: exit is terminal -- once the status is exit, no transport event,
\* control message, subscribe callback or heartbeat tick changes it
C3_ExitTerminal ==
    [][(status = "exit" /\ last'.op \in EventOps) => status' = "exit"]_vars

\* C4 as claimed: once the status is error it stays error through every event
\* and through exit(), until connect() is called
C4_ErrorStickyUntilConnect ==
    [][(status = "error" /\ last'.op \in EventOps \cup {"exit"}) => status' = "error"]_vars

\* C4 amended: once the status is error it stays error through transport
\* events, control messages, heartbeat ticks, connect() and subscribe callbacks
\* that fail; only a transmit changes it: exit() to exit, a subscribe callback
\* that succeeds to active, or a direct transmit call
C4_ErrorStickyUntilTransmit ==
    [][(status = "error" /\ status' # "error") =>
          \/ last'.op = "exit" /\ status' = "exit"
          \/ last'.op = "subscribe" /\ last'.arg = "ok" /\ status' = "active"
          \/ last'.op = "transmit" /\ status' = last'.arg]_vars

\* a subscribe callback reported an error while the status was error, and the
\* status is still error
C4_Witness ==
    /\ last.op = "subscribe" /\ last.arg = "error"
    /\ last.prevStatus = "error"
    /\ status = "error"

\* C5: the close event of a transport that exit() closed emits no error event
\* and does not make the status error
C5_VoluntaryCloseNoError ==
    [][(last'.op = "close" /\ last'.code = FORCE_DISCONNECTED) =>
          /\ ErrorEvents' = <<>>
          /\ (status' = "error" => status = "error")]_vars

\* C6: at most one transport created by the client is not closed
C6_OneTransport ==
    Cardinality({s \in 1..Len(socks) : socks[s].state \in {"connecting", "open"}}) <= 1

\* C7: echo suppression -- a broadcast envelope whose uuid equals the current
\* participant's uuid produces no message event
C7_EchoSuppressed ==
    (IsBroadcast /\ last.msg.data.uuid = current.uuid) => MessageEvents = <<>>

\* a broadcast carrying the uuid of the participant a ready message announced
\* was handled
C7_Witness ==
    /\ IsBroadcast
    /\ current # NoMember
    /\ last.msg.data.uuid = current.uuid
    /\ MessageEvents = <<>>

\* C8: a broadcast envelope whose uuid differs from the current participant's
\* produces exactly one message event carrying its {type, body}
C8_ForeignDeliveredOnce ==
    (IsBroadcast /\ last.msg.data.uuid # current.uuid) =>
        MessageEvents = <<Emit("message", [type |-> last.msg.data.type,
                                           body |-> last.msg.data.body])>>

\* the status the last operation handed to transmit, "none" if it made no call
Transmitted ==
    CASE last.op = "transmit" -> last.arg
      [] last.op = "exit" /\ last.prevStatus # "exit" -> "exit"
      [] last.op = "subscribe" /\ last.arg = "ok" -> "active"
      [] OTHER -> "none"

\* C9: every transmit(s) call sets the status to s and emits exactly one
\* statusChange event with to = s, also when s is the status it found
C9_TransmitEmits ==
    Transmitted # "none" =>
        /\ status = Transmitted
        /\ Len(StatusChanges) = 1
        /\ StatusChanges[1].payload.to = Transmitted

\* transmit(s) was called with the status already s
C9_Witness ==
    /\ last.op = "transmit"
    /\ last.arg = last.prevStatus
    /\ status = last.arg
    /\ Len(StatusChanges) = 1

\* C10: the payload of a statusChange event has exactly the fields from and
\* to; from is the status before the call and to the new status
C10_PayloadFromTo ==
    \A i \in 1..Len(StatusChanges) :
        /\ DOMAIN StatusChanges[i].payload = {"from", "to"}
        /\ StatusChanges[i].payload["from"] = last.prevStatus
        /\ StatusChanges[i].payload["to"] = status

HeartbeatSends == CountOf(effects, "send", "heartbeat")

\* C11: single heartbeat timer -- after any interleaving of open events,
\* checkHeartbeat() calls and heartbeat ticks, at most one heartbeat tick is
\* pending
C11_SingleTimer == Cardinality(timers) <= 1

\* every transport connect() created has had its close() called
AllClosed == \A s \in 1..Len(socks) : socks[s].state \in {"closing", "closed"}

\* C12: exit() cancels the heartbeat and closes the transport -- when exit()
\* returns the transport is closed and no heartbeat tick is pending, and no
\* step taken after exit() sends a heartbeat message.  (Where only exit()
\* writes the status exit and nothing overwrites it, the status is exit
\* exactly in the states after an exit() call.)
C12_ExitCancels ==
    status = "exit" =>
        /\ HeartbeatSends = 0
        /\ last.op = "exit" => (timers = {} /\ AllClosed)

\* the transport this.socket is open
TransportOpen == socket # 0 /\ socks[socket].state = "open"

\* C13: heartbeat tick rule -- a tick sends a heartbeat message and records
\* the time it read if and only if the transport is open at that moment and
\* there is no heartbeat record or the time since the recorded one is at least
\* the threshold; a tick that does not send leaves the recorded time alone
C13_TickRule ==
    [][last'.op = "tick" =>
          LET due == ~heartbeat.set
                     \/ last'.code - heartbeat.datetime >= DefaultMillisecond
          IN  /\ HeartbeatSends' = (IF TransportOpen /\ due THEN 1 ELSE 0)
              /\ HeartbeatSends' = 1 =>
                    (heartbeat'.set /\ heartbeat'.datetime = last'.code)
              /\ HeartbeatSends' = 0 =>
                    (heartbeat'.set = heartbeat.set
                     /\ heartbeat'.datetime = heartbeat.datetime)]_vars

\* C14: error propagation -- every transport error event, and every close
\* event handled while the status is not exit, emits exactly one error event
\* (CONNECTION_ERROR resp. DISCONNECTED, level FATAL) and leaves the status
\* error; a close event handled while the status is exit emits no error event
\* and leaves the status exit
C14_ErrorPropagation ==
    [][/\ last'.op = "error" =>
            /\ ErrorEvents' = <<Emit("error", [code |-> "CONNECTION_ERROR",
                                               level |-> "FATAL"])>>
            /\ status' = "error"
       /\ (last'.op = "close" /\ status # "exit") =>
            /\ ErrorEvents' = <<Emit("error", [code |-> "DISCONNECTED",
                                               level |-> "FATAL"])>>
            /\ status' = "error"
       /\ (last'.op = "close" /\ status = "exit") =>
            /\ ErrorEvents' = <<>>
            /\ status' = "exit"]_vars

\* the close event of a transport exit() closed was handled while the status
\* was exit: nothing was emitted
C14_Witness ==
    /\ last.op = "close" /\ last.code = FORCE_DISCONNECTED
    /\ status = "exit"
    /\ effects = <<>>

IsReady == last.op = "message" /\ last.msg.action = "ready"

\* C15: the bootstrap runs exactly once per ready message -- a ready envelope
\* sets the current participant to its payload and calls load, i.e.
\* doc.subscribe, exactly once, whatever the number of open events before it
C15_ReadyLoadsOnce ==
    [][IsReady' => (current' = last'.msg.data /\ pendingSubs' = pendingSubs + 1)]_vars

IsLeave == last.op = "message" /\ last.msg.action = "leave"
IsAnnounce == last.op = "message" /\ last.msg.action \in {"members", "join"}
\* the participants a members or join envelope announces, in order
Incoming(msg) == IF msg.action = "members" THEN msg.data ELSE <<msg.data>>

\* C17: removal by uuid -- a leave message for p removes every roster entry
\* whose uuid is p.uuid and keeps the others in their order; before the
\* handler returns it emits membersChange (once per registered listener) with
\* the normalized roster, which has no entry with uuid = p.uuid
C17_RemovalByUuid ==
    [][IsLeave' =>
          LET p == last'.msg.data
              normalized == normalizeMembers(members')
          IN  /\ members' = SelectSeq(members, LAMBDA m : m.uuid # p.uuid)
              /\ effects' # <<>>
              /\ \A i \in 1..Len(effects') :
                    effects'[i] = Emit("membersChange", normalized)
              /\ \A i \in 1..Len(normalized) : normalized[i].uuid # p.uuid]_vars

\* a leave for uuid u1 was handled and the roster keeps an entry of u2
C17_Witness ==
    /\ IsLeave /\ last.msg.data.uuid = "u1"
    /\ members = <<[id |-> 2, uuid |-> "u2"]>>
    /\ effects # <<>>

\* C18: addMembers is additive with first-seen-by-id precedence -- a members
\* or join message leaves every existing roster entry in place; each entry it
\* appends is an incoming participant whose id no roster entry had and that is
\* the first of the message with that id; afterwards every incoming id is in
\* the roster
C18_AddMembersAdditive ==
    [][IsAnnounce' =>
          LET incoming == Incoming(last'.msg)
              n == Len(members)
          IN  /\ Len(members') >= n
              /\ SubSeq(members', 1, n) = members
              /\ \A k \in (n + 1)..Len(members') :
                    /\ ~HasId(members, members'[k].id)
                    /\ \E j \in 1..Len(incoming) :
                          /\ incoming[j] = members'[k]
                          /\ \A i \in 1..(j - 1) : incoming[i].id # incoming[j].id
                    /\ \A l \in (n + 1)..Len(members') :
                          members'[l].id = members'[k].id => l = k
              /\ \A j \in 1..Len(incoming) : HasId(members', incoming[j].id)]_vars

\* a members message announced id 1 twice, under u1 and then u2, while the
\* roster held id 2: the entry of id 2 stays and id 1 is kept under u1
C18_Witness ==
    /\ last.op = "message" /\ last.msg.action = "members"
    /\ last.msg.data = <<[id |-> 1, uuid |-> "u1"], [id |-> 1, uuid |-> "u2"]>>
    /\ members = <<[id |-> 2, uuid |-> "u2"], [id |-> 1, uuid |-> "u1"]>>

\* C19: bootstrap success ordering -- a subscribe callback that succeeds
\* emits one ready event, one membersChange event with the normalized roster
\* and one statusChange event to active, in this order; the status is not
\* active while the ready and membersChange handlers run (transmit runs after
\* them, so they see the status the callback found) and is active when the
\* callback returns
C19_BootstrapOrder ==
    (last.op = "subscribe" /\ last.arg = "ok") =>
        /\ Len(effects) = 3
        /\ effects[1] = Emit("ready", current)
        /\ effects[2] = Emit("membersChange", normalizeMembers(members))
        /\ effects[3].kind = "emit" /\ effects[3].name = "statusChange"
        /\ effects[3].payload.to = "active"
        /\ last.prevStatus # "active"
        /\ isActive

\* C20: presence completeness under account reconnection -- after any
\* sequence of members, join and leave messages, every participant that was
\* announced and for whose uuid no leave has arrived since has an entry with
\* its id in the roster and in the normalized roster
C20_PresenceComplete ==
    \A p \in announced :
        /\ HasId(members, p.id)
        /\ \E i \in 1..Len(normalizeMembers(members)) :
              normalizeMembers(members)[i].id = p.id

====
